---------------------------- MODULE Spec2Model ----------------------------
(***************************************************************************)
(* Orphan File Finder (src/orphan-file-finder/scripts/find_orphans.py).    *)
(*                                                                         *)
(* The program indexes the source files under a root directory, extracts   *)
(* every file's import strings, resolves them to indexed files, counts     *)
(* inbound references and reports the files nobody references, split into  *)
(* orphans and whitelisted entry points.                                   *)
(*                                                                         *)
(* Paths and file texts are strings, handled character by character the    *)
(* way pathlib, str and re handle them.                                    *)
(***************************************************************************)
EXTENDS Naturals, Integers, Sequences, FiniteSets, TLC

(***************************************************************************)
(* Strings (str).                                                          *)
(***************************************************************************)
Ch(s, i) == SubSeq(s, i, i)

Tail1(s) == SubSeq(s, 2, Len(s))

StartsWith(s, p) == Len(p) <= Len(s) /\ SubSeq(s, 1, Len(p)) = p

EndsWith(s, p) == Len(p) <= Len(s) /\ SubSeq(s, Len(s) - Len(p) + 1, Len(s)) = p

RECURSIVE FindFrom(_, _, _)
\* First index >= from of character c in s, 0 when there is none.
FindFrom(s, c, from) ==
    IF from > Len(s) THEN 0
    ELSE IF Ch(s, from) = c THEN from ELSE FindFrom(s, c, from + 1)

RECURSIVE RFindFrom(_, _, _)
\* Last index <= from of character c in s, 0 when there is none.
RFindFrom(s, c, from) ==
    IF from < 1 THEN 0
    ELSE IF Ch(s, from) = c THEN from ELSE RFindFrom(s, c, from - 1)

\* Last index of character c in s, 0 when there is none (str.rfind, 1-based).
RFind(s, c) == RFindFrom(s, c, Len(s))

RECURSIVE Replace(_, _, _)
\* str.replace(a, b) for a one-character a.
Replace(s, a, b) ==
    IF s = "" THEN ""
    ELSE (IF Ch(s, 1) = a THEN b ELSE Ch(s, 1)) \o Replace(Tail1(s), a, b)

RECURSIVE Split(_, _)
\* str.split(sep) for a one-character sep: the pieces, empty ones included.
Split(s, sep) ==
    LET i == FindFrom(s, sep, 1)
    IN  IF i = 0 THEN <<s>>
        ELSE <<SubSeq(s, 1, i - 1)>> \o Split(SubSeq(s, i + 1, Len(s)), sep)

UpperAlpha == "ABCDEFGHIJKLMNOPQRSTUVWXYZ"
LowerAlpha == "abcdefghijklmnopqrstuvwxyz"
Digits == "0123456789"

\* The characters of a string, as a set.
CharSet(alphabet) == {Ch(alphabet, i) : i \in 1..Len(alphabet)}

LowerMap == [c \in CharSet(UpperAlpha) |-> Ch(LowerAlpha, FindFrom(UpperAlpha, c, 1))]

LowerCh(c) == IF c \in DOMAIN LowerMap THEN LowerMap[c] ELSE c

RECURSIVE Lower(_)
\* str.lower()
Lower(s) == IF s = "" THEN "" ELSE LowerCh(Ch(s, 1)) \o Lower(Tail1(s))

\* The characters of the model in code-point order, for comparing strings.
CodePoints == "\t\n !\"'(),-./" \o Digits \o ";=" \o UpperAlpha \o "_" \o LowerAlpha \o "{}"

OrdMap == [c \in CharSet(CodePoints) |-> FindFrom(CodePoints, c, 1)]

Ord(c) == OrdMap[c]

RECURSIVE StrLess(_, _)
\* a < b for Python strings (lexicographic by code point).
StrLess(a, b) ==
    IF b = "" THEN FALSE
    ELSE IF a = "" THEN TRUE
    ELSE IF Ch(a, 1) = Ch(b, 1) THEN StrLess(Tail1(a), Tail1(b))
    ELSE Ord(Ch(a, 1)) < Ord(Ch(b, 1))

\* The elements of a sequence, as a set.
Range(q) == {q[i] : i \in 1..Len(q)}

RECURSIVE SortedSeq(_)
\* sorted(S) for a set of strings.
SortedSeq(S) ==
    IF S = {} THEN <<>>
    ELSE LET m == CHOOSE x \in S : \A y \in S : y = x \/ StrLess(x, y)
         IN  <<m>> \o SortedSeq(S \ {m})

\* sorted(q) for a list of distinct strings.
sorted(q) == SortedSeq(Range(q))

IsSorted(q) == \A i \in 1..Len(q) : \A j \in 1..Len(q) : i < j => ~StrLess(q[j], q[i])

(***************************************************************************)
(* Paths (pathlib.PurePosixPath), kept as the string str(path) gives.      *)
(***************************************************************************)
IsAbs(s) == StartsWith(s, "/")

\* The components of a path: pathlib drops empty and "." components.
PathParts(s) == SelectSeq(Split(s, "/"), LAMBDA c : c # "" /\ c # ".")

RECURSIVE JoinSlash(_)
JoinSlash(parts) ==
    IF parts = <<>> THEN ""
    ELSE IF Len(parts) = 1 THEN parts[1]
    ELSE parts[1] \o "/" \o JoinSlash(Tail(parts))

\* str(Path(parts)) of an absolute or a relative path.
PathStr(parts, abs) ==
    IF abs THEN "/" \o JoinSlash(parts)
    ELSE IF parts = <<>> THEN "." ELSE JoinSlash(parts)

\* str(Path(s))
PathNorm(s) == PathStr(PathParts(s), IsAbs(s))

\* str(Path(a) / b)
PathJoin(a, b) == IF IsAbs(b) THEN PathNorm(b) ELSE PathNorm(a \o "/" \o b)

\* Path(p).name
Name(p) ==
    LET parts == PathParts(p)
    IN  IF parts = <<>> THEN "" ELSE parts[Len(parts)]

\* str(Path(p).parent)
Parent(p) ==
    LET parts == PathParts(p)
    IN  IF parts = <<>> THEN PathNorm(p)
        ELSE PathStr(SubSeq(parts, 1, Len(parts) - 1), IsAbs(p))

\* The suffix of a file name: from the last dot of the name, unless that
\* dot is the first or the last character of the name.
NameSuffix(n) ==
    LET i == RFind(n, ".")
    IN  IF 1 < i /\ i < Len(n) THEN SubSeq(n, i, Len(n)) ELSE ""

\* Path(p).suffix
Suffix(p) == NameSuffix(Name(p))

\* Path(p).stem
Stem(p) ==
    LET n == Name(p)
    IN  SubSeq(n, 1, Len(n) - Len(NameSuffix(n)))

\* The marker of a raised ValueError.
ValueError == "<ValueError>"

\* str(Path(p).with_suffix(ext)): the name's suffix is REPLACED by ext (and
\* ext is appended when the name has no suffix); ValueError on an empty name.
WithSuffix(p, ext) ==
    LET parts == PathParts(p)
        n == parts[Len(parts)]
        stem == SubSeq(n, 1, Len(n) - Len(NameSuffix(n)))
    IN  IF parts = <<>> THEN ValueError
        ELSE PathStr(SubSeq(parts, 1, Len(parts) - 1) \o <<stem \o ext>>, IsAbs(p))

RECURSIVE Collapse(_, _)
\* The components with every ".." applied (no symbolic links in the tree).
Collapse(parts, acc) ==
    IF parts = <<>> THEN acc
    ELSE IF Head(parts) = ".."
         THEN Collapse(Tail(parts),
                       IF acc = <<>> THEN acc ELSE SubSeq(acc, 1, Len(acc) - 1))
         ELSE Collapse(Tail(parts), Append(acc, Head(parts)))

\* str(Path(p).resolve()) of an absolute path.
Resolve(p) == PathStr(Collapse(PathParts(p), <<>>), TRUE)

\* str(Path(p).relative_to(root)) of a path below root.
RelativeTo(p, root) == SubSeq(p, Len(root) + 2, Len(p))


(***************************************************************************)
(* Configuration (module-level tables of find_orphans.py).                 *)
(***************************************************************************)
\* The recognised extensions. A Python set: its iteration order is chosen by
\* the interpreter's string hashing, anew for every process.
EXTENSIONS == {".js", ".jsx", ".ts", ".tsx", ".mjs", ".cjs", ".py", ".go"}

SKIP_DIRS ==
    {"node_modules", "vendor", "venv", ".venv", "__pycache__", ".git", "dist",
     "build", ".next", "target", "bin", "obj", ".idea", ".vscode", "coverage",
     "test", "tests"}

\* Every pattern of the list is anchored at the start of the name. A pattern
\* "^head(t1|t2)$" is [head, tails, open |-> FALSE]; a pattern "^head" that
\* leaves the rest of the name open is [head, tails |-> {}, open |-> TRUE].
ENTRY_POINT_PATTERNS ==
    << [head |-> "index.", tails |-> {"js", "ts", "jsx", "tsx"}, open |-> FALSE],
       [head |-> "main.", tails |-> {"js", "ts", "py", "go"}, open |-> FALSE],
       [head |-> "server.", tails |-> {"js", "ts"}, open |-> FALSE],
       [head |-> "app.", tails |-> {"js", "ts"}, open |-> FALSE],
       [head |-> "cli.", tails |-> {"js", "ts", "py"}, open |-> FALSE],
       [head |-> "setup.py", tails |-> {""}, open |-> FALSE],
       [head |-> "manage.py", tails |-> {""}, open |-> FALSE],
       [head |-> "vite.config.", tails |-> {}, open |-> TRUE],
       [head |-> "webpack.config.", tails |-> {}, open |-> TRUE],
       [head |-> "jest.config.", tails |-> {}, open |-> TRUE],
       [head |-> "tsconfig.json", tails |-> {""}, open |-> FALSE],
       [head |-> "package.json", tails |-> {""}, open |-> FALSE],
       [head |-> "go.mod", tails |-> {""}, open |-> FALSE],
       [head |-> "requirements.txt", tails |-> {""}, open |-> FALSE] >>

\* re.search(pattern, name, re.IGNORECASE) for a pattern of the list, given
\* the name in lower case (the patterns hold no upper-case letter).
PatternSearch(pattern, lowered) ==
    IF pattern.open THEN StartsWith(lowered, pattern.head)
    ELSE StartsWith(lowered, pattern.head)
         /\ SubSeq(lowered, Len(pattern.head) + 1, Len(lowered)) \in pattern.tails

(***************************************************************************)
(* Character classes of re.                                                *)
(***************************************************************************)
\* The character of s at i, "" outside the string.
At(s, i) == IF 1 <= i /\ i <= Len(s) THEN SubSeq(s, i, i) ELSE ""

\* Whether s holds the word w at index i.
HasAt(s, i, w) == i >= 1 /\ i + Len(w) - 1 <= Len(s) /\ SubSeq(s, i, i + Len(w) - 1) = w

\* White space.
IsSpace(c) == c \in {" ", "\t", "\n", "\r", "\f"}

\* A character of a dotted name: a word character or a dot.
WordDotChars == CharSet(LowerAlpha \o UpperAlpha \o Digits \o "_.")

IsWordDot(c) == c \in WordDotChars

\* A single or a double quote.
IsQuote(c) == c = "\"" \/ c = "'"

RECURSIVE SkipSpace(_, _)
\* The first index >= i of s that holds no white space (Len(s)+1 at the end).
SkipSpace(s, i) == IF IsSpace(At(s, i)) THEN SkipSpace(s, i + 1) ELSE i

RECURSIVE SkipWordDot(_, _)
\* The first index >= i of s that holds no character of a dotted name.
SkipWordDot(s, i) == IF IsWordDot(At(s, i)) THEN SkipWordDot(s, i + 1) ELSE i

RECURSIVE FindQuote(_, _)
\* The first index >= i of s that holds a quote, 0 when there is none.
FindQuote(s, i) ==
    IF i > Len(s) THEN 0
    ELSE IF IsQuote(At(s, i)) THEN i ELSE FindQuote(s, i + 1)

RECURSIVE LastNonSpaceFrom(_, _)
LastNonSpaceFrom(s, i) ==
    IF i < 1 THEN 0
    ELSE IF IsSpace(Ch(s, i)) THEN LastNonSpaceFrom(s, i - 1) ELSE i

\* The last index of s that holds no white space, 0 when there is none.
LastNonSpace(s) == LastNonSpaceFrom(s, Len(s))

NoMatch == [ok |-> FALSE, ref |-> "", end |-> 0]

(***************************************************************************)
(* REGEX_PY_IMPORT: at the start of the line, white space, then either     *)
(* "import", white space, a dotted name (group 1), or "from", white space, *)
(* a dotted name (group 2), white space, "import".                         *)
(***************************************************************************)
\* The pattern without its second alternative ("from X import").
REGEX_PY_IMPORT_NoFrom(line) ==
    LET i == SkipSpace(line, 1)
        j1 == SkipSpace(line, i + 6)
        e1 == SkipWordDot(line, j1)
    IN  IF HasAt(line, i, "import") /\ j1 > i + 6 /\ e1 > j1
        THEN [ok |-> TRUE, ref |-> SubSeq(line, j1, e1 - 1), end |-> e1 - 1]
        ELSE NoMatch

\* REGEX_PY_IMPORT.match(line): group 1 or group 2 of the match.
REGEX_PY_IMPORT(line) ==
    LET i == SkipSpace(line, 1)
        j1 == SkipSpace(line, i + 6)
        e1 == SkipWordDot(line, j1)
        j2 == SkipSpace(line, i + 4)
        e2 == SkipWordDot(line, j2)
        k2 == SkipSpace(line, e2)
    IN  IF HasAt(line, i, "import") /\ j1 > i + 6 /\ e1 > j1
        THEN [ok |-> TRUE, ref |-> SubSeq(line, j1, e1 - 1), end |-> e1 - 1]
        ELSE IF HasAt(line, i, "from") /\ j2 > i + 4 /\ e2 > j2 /\ k2 > e2
                /\ HasAt(line, k2, "import")
        THEN [ok |-> TRUE, ref |-> SubSeq(line, j2, e2 - 1), end |-> k2 + 5]
        ELSE NoMatch

(***************************************************************************)
(* REGEX_JS_IMPORT: one of "start of text", ";" or "}", then white space,  *)
(* then one of                                                             *)
(*    import, white space, optionally (no quotes, white space, from,       *)
(*            white space)                                                 *)
(*    export, the same                                                     *)
(*    require, optional white space, an opening parenthesis, optional      *)
(*            white space                                                  *)
(* then a quote, one or more characters that are no quote (group 1), a     *)
(* quote. Compiled without re.MULTILINE: ^ is the start of the text only.  *)
(***************************************************************************)
\* The quoted string of the pattern (group 1 between two quotes), the
\* opening quote at fq.
JsQuoted(s, fq) ==
    LET nq == FindQuote(s, fq + 1)
    IN  IF IsQuote(At(s, fq)) /\ nq > fq + 1
        THEN [ok |-> TRUE, ref |-> SubSeq(s, fq + 1, nq - 1), end |-> nq]
        ELSE NoMatch

\* What follows import or export, r the index after the keyword. The
\* optional part cannot pass a quote, so the text t between the keyword
\* and the first quote is either all white space, or white space, anything,
\* white space, "from", white space.
JsImportTail(s, r) ==
    LET fq == FindQuote(s, r)
        t == SubSeq(s, r, fq - 1)
        k == LastNonSpace(t)
    IN  IF ~IsSpace(At(s, r)) \/ fq = 0 THEN NoMatch
        ELSE IF k = 0 THEN JsQuoted(s, fq)
        ELSE IF k < Len(t) /\ HasAt(t, k - 3, "from") /\ k - 4 >= 2
                /\ IsSpace(At(t, k - 4))
        THEN JsQuoted(s, fq)
        ELSE NoMatch

\* What follows require, r the index after the keyword.
JsRequireTail(s, r) ==
    LET p == SkipSpace(s, r)
    IN  IF At(s, p) = "(" THEN JsQuoted(s, SkipSpace(s, p + 1)) ELSE NoMatch

\* The pattern after its first alternative (start of text, ; or }), from index a on.
JsAfterAnchor(s, a) ==
    LET q == SkipSpace(s, a)
    IN  IF HasAt(s, q, "import") THEN JsImportTail(s, q + 6)
        ELSE IF HasAt(s, q, "export") THEN JsImportTail(s, q + 6)
        ELSE IF HasAt(s, q, "require") THEN JsRequireTail(s, q + 7)
        ELSE NoMatch

\* A match of REGEX_JS_IMPORT that starts at index p: ^ matches at the start
\* of the text only, ";" and "}" anywhere.
JsMatchAt(s, p) ==
    LET viaStart == IF p = 1 THEN JsAfterAnchor(s, p) ELSE NoMatch
        viaSep == IF At(s, p) \in {";", "}"} THEN JsAfterAnchor(s, p + 1) ELSE NoMatch
    IN  IF viaStart.ok THEN viaStart ELSE viaSep

RECURSIVE JsFindIter(_, _)
\* REGEX_JS_IMPORT.finditer(content): group 1 of every match, left to right,
\* the matches not overlapping.
JsFindIter(s, p) ==
    IF p > Len(s) THEN <<>>
    ELSE LET m == JsMatchAt(s, p)
         IN  IF m.ok THEN <<m.ref>> \o JsFindIter(s, m.end + 1)
             ELSE JsFindIter(s, p + 1)

\* REGEX_PY_IMPORT.match on every line of content.splitlines().
PyFindLines(content) ==
    LET lines == Split(content, "\n")
        hits == SelectSeq(lines, LAMBDA l : REGEX_PY_IMPORT(l).ok)
    IN  [i \in 1..Len(hits) |-> REGEX_PY_IMPORT(hits[i]).ref]

JS_SUFFIXES == {".js", ".jsx", ".ts", ".tsx", ".mjs", ".cjs"}

\* The matches scan_imports collects from a text, one per occurrence.
ImportOccurrences(file_path, content) ==
    LET ext == Lower(Suffix(file_path))
    IN  IF ext \in JS_SUFFIXES THEN JsFindIter(content, 1)
        ELSE IF ext = ".py" THEN PyFindLines(content)
        ELSE <<>>

\* A scan_imports that yields the imports of the text even though the read
\* failed (the except clause missing).
scan_imports_ReadsAnyway(file_path, file) ==
    Range(ImportOccurrences(file_path, file.text))

\* scan_imports(file_path): the set of imported strings of the file; the
\* empty set when the file cannot be read. file is the file's entry of the
\* directory snapshot: [ok |-> whether open/read succeed, text |-> content].
scan_imports(file_path, file) ==
    IF file.ok THEN Range(ImportOccurrences(file_path, file.text)) ELSE {}

(***************************************************************************)
(* is_ignored and get_entry_points.                                        *)
(***************************************************************************)
RECURSIVE FnMatch(_, _)
\* fnmatch.fnmatchcase(name, pat) for patterns made of literal characters,
\* "*" and "?".
FnMatch(name, pat) ==
    IF pat = "" THEN name = ""
    ELSE IF Ch(pat, 1) = "*"
         THEN IF FnMatch(name, Tail1(pat)) THEN TRUE
              ELSE name # "" /\ FnMatch(Tail1(name), pat)
    ELSE name # "" /\ (Ch(pat, 1) = "?" \/ Ch(pat, 1) = Ch(name, 1))
         /\ FnMatch(Tail1(name), Tail1(pat))

\* PurePosixPath(path).match(pattern) for a relative path: a relative
\* pattern is matched from the right, component by component; an absolute
\* pattern never matches a relative path.
PathMatch(path, pattern) ==
    LET parts == PathParts(path)
        pats == PathParts(pattern)
        n == Len(parts)
        m == Len(pats)
    IN  /\ ~IsAbs(pattern)
        /\ m <= n
        /\ \A i \in 1..m : FnMatch(parts[n - m + i], pats[i])

\* is_ignored(path, ignore_patterns)
is_ignored(path, ignore_patterns) ==
    \E i \in 1..Len(ignore_patterns) :
        ignore_patterns[i] # "" /\ PathMatch(path, ignore_patterns[i])

\* Whether the name of file f matches one of ENTRY_POINT_PATTERNS.
IsEntryPointName(f) ==
    LET lowered == Lower(Name(f))
    IN  \E i \in 1..Len(ENTRY_POINT_PATTERNS) :
            PatternSearch(ENTRY_POINT_PATTERNS[i], lowered)

\* get_entry_points(files): the files whose name matches a pattern.
get_entry_points(files) == {f \in Range(files) : IsEntryPointName(f)}

(***************************************************************************)
(* resolve_import.                                                         *)
(***************************************************************************)
\* None, as a result of resolve_import.
None == "<None>"

\* dict.get(key, []) on the name and stem keys of the file map.
MapGet(map, key) == IF key \in DOMAIN map THEN map[key] ELSE <<>>

RECURSIVE FirstFrom(_, _, _)
FirstFrom(q, hits, i) ==
    IF i > Len(q) THEN None
    ELSE IF q[i] \in hits THEN q[i] ELSE FirstFrom(q, hits, i + 1)

\* The first element of the sequence q that is in the set hits (the elements
\* that pass the test of the loop), None when there is none.
FirstWith(q, hits) == FirstFrom(q, hits, 1)

\* Branch 1 without the test of the path: the first file of that name wins.
ResolveModulePath_AnyCandidate(import_path, all_files_map) ==
    LET py_path == Replace(import_path, ".", "/")
        candidates == MapGet(all_files_map, Name(py_path))
    IN  FirstWith(candidates, Range(candidates))

\* Branch 1 of resolve_import: a reference that does not start with ".".
\* (No file of the snapshots has the stem "__FULL_PATHS__", the key under
\* which main stores the set of full paths in the same map.)
ResolveModulePath(import_path, all_files_map) ==
    LET py_path == Replace(import_path, ".", "/")
        candidates == MapGet(all_files_map, Name(py_path))
    IN  FirstWith(candidates, {c \in Range(candidates) : EndsWith(c, py_path \o ".py")})

\* The candidate the "Try extensions" loop builds for one extension.
ExtensionCandidate(target, ext) == WithSuffix(target, ext)

\* The candidate the "Try index files" loop builds for one extension.
IndexCandidate(target, ext) == PathJoin(target, "index" \o ext)

\* A branch 2 that falls back on any indexed file of the same stem when the
\* three steps find nothing.
ResolveRelative_StemFallback(target, full_paths, ext_iter) ==
    LET byExt == FirstWith(ext_iter,
                     {ext \in EXTENSIONS : ExtensionCandidate(target, ext) \in full_paths})
        byIndex == FirstWith(ext_iter,
                     {ext \in EXTENSIONS : IndexCandidate(target, ext) \in full_paths})
        same == {p \in full_paths : Stem(p) = Stem(target)}
    IN  IF target \in full_paths THEN target
        ELSE IF Name(target) = "" THEN ValueError
        ELSE IF byExt # None THEN ExtensionCandidate(target, byExt)
        ELSE IF byIndex # None THEN IndexCandidate(target, byIndex)
        ELSE IF same # {} THEN CHOOSE p \in same : TRUE
        ELSE None

\* Branch 2 of resolve_import: a reference that starts with ".". target is
\* the resolved path; ext_iter is the order in which this process iterates
\* the set EXTENSIONS.
ResolveRelative(target, full_paths, ext_iter) ==
    LET byExt == FirstWith(ext_iter,
                     {ext \in EXTENSIONS : ExtensionCandidate(target, ext) \in full_paths})
        byIndex == FirstWith(ext_iter,
                     {ext \in EXTENSIONS : IndexCandidate(target, ext) \in full_paths})
    IN  IF target \in full_paths THEN target
        ELSE IF Name(target) = "" THEN ValueError
        ELSE IF byExt # None THEN ExtensionCandidate(target, byExt)
        ELSE IF byIndex # None THEN IndexCandidate(target, byIndex)
        ELSE None

\* A resolve_import that joins the reference to the importing file itself
\* instead of its directory (".parent" missing).
resolve_import_NoParent(base_file, import_path, all_files_map, full_paths, ext_iter) ==
    IF ~StartsWith(import_path, ".")
    THEN ResolveModulePath(import_path, all_files_map)
    ELSE ResolveRelative(Resolve(PathJoin(base_file, import_path)), full_paths, ext_iter)

\* resolve_import(base_file, import_path, all_files_map), with the set the
\* map holds under '__FULL_PATHS__' and the iteration order of EXTENSIONS.
\* The result is a full path, None, or ValueError when with_suffix raises.
resolve_import(base_file, import_path, all_files_map, full_paths, ext_iter) ==
    IF ~StartsWith(import_path, ".")
    THEN ResolveModulePath(import_path, all_files_map)
    ELSE ResolveRelative(Resolve(PathJoin(Parent(base_file), import_path)),
                         full_paths, ext_iter)

(***************************************************************************)
(* os.walk over the directory snapshot.                                    *)
(***************************************************************************)
\* The files of the snapshot below directory dir.
Under(dir, files) == {f \in files : StartsWith(f, dir \o "/")}

\* The name of the child of dir on the way to f.
ChildName(dir, f) == PathParts(f)[Len(PathParts(dir)) + 1]

RECURSIVE Distinct(_, _)
\* The sequence q without its repetitions, first occurrences kept.
Distinct(q, seen) ==
    IF q = <<>> THEN <<>>
    ELSE IF Head(q) \in seen THEN Distinct(Tail(q), seen)
    ELSE <<Head(q)>> \o Distinct(Tail(q), seen \cup {Head(q)})

\* A dirnames filter that knows the skip set only.
KeepDir_NoHidden(d) == d \notin SKIP_DIRS

\* The dirnames filter of main: no skipped and no hidden directory.
KeepDir(d) == d \notin SKIP_DIRS /\ ~StartsWith(d, ".")

RECURSIVE os_walk(_, _, _, _)
RECURSIVE WalkDirs(_, _, _, _, _)
\* The full paths of the files os.walk(dir) hands to the loop of main, in
\* order: the files of dir, then every kept subdirectory in turn. listing
\* gives the order in which scandir lists entries; a directory of noread
\* cannot be listed, and os.walk (onerror=None) passes it over in silence.
os_walk(dir, files, listing, noread) ==
    LET below == Under(dir, files)
        filenames == SelectSeq(listing, LAMBDA f : f \in below /\ Parent(f) = dir)
        deeper == SelectSeq(listing, LAMBDA f : f \in below /\ Parent(f) # dir)
        dirnames == Distinct([i \in 1..Len(deeper) |-> ChildName(dir, deeper[i])], {})
        kept == SelectSeq(dirnames, KeepDir)
    IN  IF dir \in noread THEN <<>>
        ELSE filenames \o WalkDirs(dir, kept, files, listing, noread)

WalkDirs(dir, dirnames, files, listing, noread) ==
    IF dirnames = <<>> THEN <<>>
    ELSE os_walk(PathJoin(dir, Head(dirnames)), files, listing, noread)
         \o WalkDirs(dir, Tail(dirnames), files, listing, noread)

(***************************************************************************)
(* The inputs of a run: the directory snapshot, the command line and the   *)
(* interpreter's iteration order of EXTENSIONS.                            *)
(***************************************************************************)
\* The most files a directory snapshot holds.
MaxFiles == 3

\* The most runs of the program over one snapshot (SpecRerun).
MaxRuns == 2

\* The resolved root directory, Path(args.directory).resolve().
ROOT == "/r"

File(text) == [ok |-> TRUE, text |-> text]

\* A file whose open() fails (permission denied); text is what it holds.
Unreadable(text) == [ok |-> FALSE, text |-> text]

\* The contents a file of the snapshot universe may hold.
ContentsOf(path) ==
    CASE path = "/r/src/index.js" ->
            {File("import './lib/a.js'"), File("import b from './lib/b'"),
             File("import b from 'lib/b';import './lib/a';import './lib/a';import './lib/a.js'")}
      [] path = "/r/src/lib/a.js" ->
            {File(""), File("import './a'"), File("require('../index')")}
      [] path = "/r/src/lib/a.ts" ->
            {File(""), File("import x from './a.js';\nimport y from \"./b\"")}
      [] path = "/r/main.py" ->
            {File("from utils import helper"), File("import utils.helper\nimport os")}
      [] path = "/r/utils/unused.py" ->
            {File(""),
             File("x = 1\n  import helper as h\nprint('import main')\nfrom utils.helper import run\nimportant = 2\nimport os, main")}
      [] path = "/r/utils/helper.py" ->
            {File(""), File("import helper")}
      [] path = "/r/m.js" ->
            {File("import './user.model'"), File("import a from './a'"),
             File("import './user'\nimport a from './a'\nconst m = require('./user.model')"),
             Unreadable("import './user'")}
      [] path = "/r/a/index.js" ->
            {File("export * from '../m'"), Unreadable("")}
      [] path = "/r/App.JS" ->
            {File(""), File("import z from './lib/z'"),
             File("import './lib/z';require('../..')"),
             File("import './node_modules/x';import y from './.cfg/y'")}
      [] path \in {"/r/x/util.js", "/r/y/util.js"} ->
            {File("import d from './dep'")}
      [] path = "/r/pkg/user.py" ->
            {File("from .mod import name"), File("from . import name")}
      [] path = "/r/top.js" ->
            {File(""), File("import x from './a/x'")}
      [] path = "/r/node_modules/x.js" ->
            {File("import '../App'")}
      [] OTHER -> {File("")}

\* The projects snapshots are drawn from: the candidate files, the sets of
\* unlistable directories and the --ignore arguments tried with them.
Projects ==
    { [files |-> {"/r/src/index.js", "/r/src/lib/a.js", "/r/src/lib/b.js", "/r/src/lib/a.ts"},
       noread |-> {{}, {"/r/src/lib"}},
       ignore |-> {""}],
      [files |-> {"/r/main.py", "/r/utils/helper.py", "/r/utils/unused.py", "/r/myutils/helper.py"},
       noread |-> {{}},
       ignore |-> {""}],
      [files |-> {"/r/m.js", "/r/user.model.ts", "/r/user.js", "/r/a/index.js"},
       noread |-> {{}},
       ignore |-> {""}],
      [files |-> {"/r/App.JS", "/r/node_modules/x.js", "/r/.cfg/y.js", "/r/lib/z.go"},
       noread |-> {{}},
       ignore |-> {"", "*.go,lib/*"}],
      [files |-> {"/r/x/util.js", "/r/y/util.js", "/r/x/dep.js", "/r/y/dep.js"},
       noread |-> {{}},
       ignore |-> {""}],
      [files |-> {"/r/pkg/user.py", "/r/pkg/mod.py", "/r/pkg/index.js", "/r/pkg.py"},
       noread |-> {{}},
       ignore |-> {""}] }

AllContents == UNION {ContentsOf(f) : f \in UNION {p.files : p \in Projects}}

\* The snapshots of a set of paths: every path with one of its contents.
SnapshotsOf(paths) == {fs \in [paths -> AllContents] : \A f \in paths : fs[f] \in ContentsOf(f)}

RECURSIVE Orderings(_)
Orderings(S) ==
    IF S = {} THEN {<<>>}
    ELSE UNION {{<<x>> \o q : q \in Orderings(S \ {x})} : x \in S}

\* The orders in which os.walk can visit the files of a snapshot (no
\* directory left out): every directory's entries in any order.
WalkOrders(paths) == {os_walk(ROOT, paths, q, {}) : q \in Orderings(paths)}

\* Iteration orders of the set EXTENSIONS: the insertion order and its
\* reverse stand for the orders string hashing produces.
ExtOrders ==
    { <<".js", ".jsx", ".ts", ".tsx", ".mjs", ".cjs", ".py", ".go">>,
      <<".go", ".py", ".cjs", ".mjs", ".tsx", ".ts", ".jsx", ".js">> }

Formats == {"json", "text"}

VARIABLES
    root_kind,      \* what args.directory names: "dir", "file" or "missing"
    fs,             \* the files below the root: full path -> [ok, text]
    noread_dirs,    \* the directories that cannot be listed
    listing,        \* the order in which scandir lists the files
    links,          \* the symbolic links to directories: link path -> target
    ignore,         \* args.ignore
    format,         \* args.format
    ext_iter,       \* this process's iteration order of EXTENSIONS
    pc,             \* "index", "graph", "count", "output", "done", "crashed"
    all_files,      \* main: all_files
    file_map,       \* main: file_map, its name and stem keys
    full_path_set,  \* main: full_path_set, file_map['__FULL_PATHS__']
    graph,          \* main: graph, consumer -> set of dependencies
    in_degree,      \* main: in_degree
    consumer,       \* index in all_files of the next consumer of the count loop
    resolutions,    \* the calls of resolve_import made by the count loop
    processed_orphans,  \* main: processed_orphans
    processed_entry,    \* main: processed_entry
    stdout,         \* what the run printed on standard output
    stderr,         \* what the run printed on standard error
    exit_code,      \* the exit status, -1 while running
    run,            \* the number of this run over the snapshot
    previous,       \* the standard output of the runs before this one
    walk_stack,     \* os.walk taken step by step: the directories yet to list
    walk_seen,      \* the physical directories os.walk has listed, in order
    steps           \* the number of steps the processes have taken

inputs == <<root_kind, fs, noread_dirs, listing, links, ignore, format>>

walk == <<walk_stack, walk_seen>>

locals == <<all_files, file_map, full_path_set, graph, in_degree, consumer,
            resolutions, processed_orphans, processed_entry>>

vars == <<inputs, ext_iter, pc, locals, stdout, stderr, exit_code, run, previous, walk,
          steps>>

\* The state of a process that has parsed its arguments and resolved root.
Fresh ==
    /\ pc = "index"
    /\ all_files = <<>>
    /\ file_map = <<>>
    /\ full_path_set = {}
    /\ graph = <<>>
    /\ in_degree = <<>>
    /\ consumer = 0
    /\ resolutions = {}
    /\ processed_orphans = <<>>
    /\ processed_entry = <<>>
    /\ stdout = <<>>
    /\ stderr = <<>>
    /\ exit_code = -1

Init ==
    /\ \E project \in Projects :
         /\ \E paths \in SUBSET project.files :
              /\ Cardinality(paths) <= MaxFiles
              /\ fs \in SnapshotsOf(paths)
              /\ listing \in WalkOrders(paths)
              /\ root_kind \in (IF paths = {} THEN {"dir", "file", "missing"} ELSE {"dir"})
         /\ noread_dirs \in project.noread
         /\ ignore \in project.ignore
    /\ format \in Formats
    /\ ext_iter \in ExtOrders
    /\ links = <<>>
    /\ walk_stack = <<>>
    /\ walk_seen = <<>>
    /\ steps = 0
    /\ run = 1
    /\ previous = <<>>
    /\ Fresh

(***************************************************************************)
(* main, phase 1: index all files.                                         *)
(***************************************************************************)
\* ignore_patterns = args.ignore.split(',') if args.ignore else []
IgnorePatterns(arg) == IF arg = "" THEN <<>> ELSE Split(arg, ",")

\* An extension test that compares the suffix as it is spelled.
Qualifies_CaseSensitive(path, ignore_patterns) ==
    /\ Suffix(path) \in EXTENSIONS
    /\ ~is_ignored(RelativeTo(path, ROOT), ignore_patterns)

\* Whether the loop of main indexes the walked file path.
Qualifies(path, ignore_patterns) ==
    /\ Lower(Suffix(path)) \in EXTENSIONS
    /\ ~is_ignored(RelativeTo(path, ROOT), ignore_patterns)

\* The files os.walk(root) yields; nothing when root is no directory
\* (os.walk swallows the error of scandir).
WalkedFiles(kind, files, order, noread) ==
    IF kind = "dir" THEN os_walk(ROOT, files, order, noread) ELSE <<>>

\* all_files after the indexing loop.
IndexedFiles(walked, ignore_patterns) ==
    SelectSeq(walked, LAMBDA path : Qualifies(path, ignore_patterns))

\* The appends of the indexing loop to file_map, in order: every file under
\* its name, then under its stem.
KeyPairs(files) ==
    [i \in 1..(2 * Len(files)) |->
        LET f == files[(i + 1) \div 2]
        IN  IF i % 2 = 1 THEN <<Name(f), f>> ELSE <<Stem(f), f>>]

\* file_map after the indexing loop: key -> the list of paths appended.
BuildFileMap(files) ==
    LET pairs == KeyPairs(files)
        keys == {pairs[i][1] : i \in 1..Len(pairs)}
    IN  [k \in keys |->
            LET sel == SelectSeq(pairs, LAMBDA pr : pr[1] = k)
            IN  [i \in 1..Len(sel) |-> sel[i][2]]]

IndexFiles ==
    /\ pc = "index"
    /\ UNCHANGED walk
    /\ steps' = steps + 1
    /\ LET walked == WalkedFiles(root_kind, DOMAIN fs, listing, noread_dirs)
           files == IndexedFiles(walked, IgnorePatterns(ignore))
       IN  /\ all_files' = files
           /\ file_map' = BuildFileMap(files)
           /\ full_path_set' = Range(files)
    /\ pc' = "graph"
    /\ UNCHANGED <<inputs, ext_iter, graph, in_degree, consumer, resolutions,
                   processed_orphans, processed_entry, stdout, stderr,
                   exit_code, run, previous>>

(***************************************************************************)
(* main, phase 2: the graph loop and the in-degree loop.                   *)
(***************************************************************************)
\* {f: 0 for f in all_files}
ZeroTable(files) == [f \in Range(files) |-> 0]

\* resolve_import as main calls it for file f and import string imp.
Resolved(f, imp) == resolve_import(f, imp, file_map, full_path_set, ext_iter)

\* The test of the loops without "resolved != file".
CountsAsEdge_NoSelfTest(resolved, file, table) ==
    /\ resolved # None
    /\ resolved # ""
    /\ resolved \in DOMAIN table

\* The test of both loops: resolved is truthy, a key of in_degree, and not
\* the importing file itself.
CountsAsEdge(resolved, file, table) ==
    /\ resolved # None
    /\ resolved # ""
    /\ resolved \in DOMAIN table
    /\ resolved # file

\* The calls of resolve_import one pass over file f makes: one for every
\* string of the set raw_imports, as <<import string, result>>.
Resolutions(f) == {<<imp, Resolved(f, imp)>> : imp \in scan_imports(f, fs[f])}

\* A lookup by subscript: all_files_map[key] on the defaultdict(list) makes
\* an empty entry for a key it does not hold.
MapAfterGet_Subscript(map, key) ==
    IF key \in DOMAIN map THEN map
    ELSE [k \in DOMAIN map \cup {key} |-> IF k = key THEN <<>> ELSE map[k]]

\* The map after all_files_map.get(key, []): get inserts nothing.
MapAfterGet(map, key) == map

RECURSIVE MapAfterLookups(_, _)
\* The map after the lookups of the keys.
MapAfterLookups(map, keys) ==
    IF keys = {} THEN map
    ELSE LET k == CHOOSE x \in keys : TRUE
         IN  MapAfterLookups(MapAfterGet(map, k), keys \ {k})

\* The name keys branch 1 of resolve_import looks up for the references
\* found: Path(py_path).name.
LookupKeys(found) ==
    {Name(Replace(r[1], ".", "/")) : r \in {x \in found : ~StartsWith(x[1], ".")}}

\* The resolutions of file f that pass the test of the loops.
Edges(f, table) == {r \in Resolutions(f) : CountsAsEdge(r[2], f, table)}

\* The dependencies the graph loop records for file f.
Dependencies(f, table) == {r[2] : r \in Edges(f, table)}

\* An in-degree loop without the test "resolved in in_degree" on a table
\* that makes its entries on first use (a defaultdict(int)).
Incremented_Unguarded(table, c) ==
    LET found == {r \in Resolutions(c) : r[2] # c}
    IN  [t \in DOMAIN table \cup {r[2] : r \in found} |->
            (IF t \in DOMAIN table THEN table[t] ELSE 0)
                + Cardinality({r \in found : r[2] = t})]

\* An in-degree loop in which a consumer that has itself been imported so
\* far contributes nothing.
Incremented_SkipsImported(table, c) ==
    LET edges == Edges(c, table)
    IN  [t \in DOMAIN table |->
            table[t] + (IF table[c] > 0 THEN 0
                        ELSE Cardinality({r \in edges : r[2] = t}))]

\* An in-degree loop that credits the consumer instead of the dependency.
Incremented_CreditsConsumer(table, c) ==
    LET edges == Edges(c, table)
    IN  [t \in DOMAIN table |-> table[t] + IF t = c THEN Cardinality(edges) ELSE 0]

\* in_degree after the in-degree loop has handled consumer file c: one
\* increment for every string of the set raw_imports that makes an edge.
Incremented(table, c) ==
    LET edges == Edges(c, table)
    IN  [t \in DOMAIN table |-> table[t] + Cardinality({r \in edges : r[2] = t})]

ScanningLine(n) == [kind |-> "info", text |-> "Scanning files", n |-> n]

Traceback(error) == [kind |-> "traceback", text |-> error, n |-> 1]

\* The first loop over all_files (it fills graph) and the reset of
\* in_degree. with_suffix raising ValueError inside resolve_import is caught
\* nowhere: the process dies with a traceback.
BuildGraph ==
    /\ pc = "graph"
    /\ UNCHANGED walk
    /\ steps' = steps + 1
    /\ LET zero == ZeroTable(all_files)
           found == [f \in Range(all_files) |-> Resolutions(f)]
           raised == \E f \in Range(all_files) : \E r \in found[f] : r[2] = ValueError
           deps == [f \in Range(all_files) |->
                       {r[2] : r \in {x \in found[f] : CountsAsEdge(x[2], f, zero)}}]
           consumers == {f \in Range(all_files) : deps[f] # {}}
       IN  /\ file_map' = MapAfterLookups(file_map,
                              UNION {LookupKeys(found[f]) : f \in Range(all_files)})
           /\ IF raised
              THEN /\ pc' = "crashed"
                   /\ stderr' = stderr \o <<ScanningLine(Len(all_files)), Traceback(ValueError)>>
                   /\ exit_code' = 1
                   /\ in_degree' = zero
                   /\ UNCHANGED <<graph, consumer>>
              ELSE /\ pc' = "count"
                   /\ stderr' = Append(stderr, ScanningLine(Len(all_files)))
                   /\ graph' = [f \in consumers |-> deps[f]]
                   /\ in_degree' = zero
                   /\ consumer' = 1
                   /\ UNCHANGED exit_code
    /\ UNCHANGED <<inputs, ext_iter, all_files, full_path_set,
                   resolutions, processed_orphans, processed_entry, stdout,
                   run, previous>>

\* One iteration of "for consumer in all_files".
CountConsumer ==
    /\ pc = "count"
    /\ UNCHANGED walk
    /\ steps' = steps + 1
    /\ consumer <= Len(all_files)
    /\ LET c == all_files[consumer]
       IN  /\ in_degree' = Incremented(in_degree, c)
           /\ resolutions' = resolutions \cup
                 {[consumer |-> c, ref |-> r[1], target |-> r[2]] : r \in Resolutions(c)}
           /\ file_map' = MapAfterLookups(file_map, LookupKeys(Resolutions(c)))
    /\ consumer' = consumer + 1
    /\ UNCHANGED <<inputs, ext_iter, pc, all_files, full_path_set,
                   graph, processed_orphans, processed_entry, stdout, stderr,
                   exit_code, run, previous>>

(***************************************************************************)
(* main, phase 3 and 4: identify orphans, print.                           *)
(***************************************************************************)
\* A selection that also takes the files with one consumer.
ZeroDegree_AtMostOne(table, files) == SelectSeq(files, LAMBDA f : table[f] <= 1)

\* orphans: the keys of in_degree with degree 0, in the order of the dict.
ZeroDegree(table, files) == SelectSeq(files, LAMBDA f : table[f] = 0)

\* true_orphans without the entry-point filter.
TrueOrphans_Unfiltered(orphans, entry_points) == orphans

\* true_orphans = [f for f in orphans if f not in entry_points]
TrueOrphans(orphans, entry_points) == SelectSeq(orphans, LAMBDA f : f \notin entry_points)

\* likely_entry_points = [f for f in orphans if f in entry_points]
LikelyEntryPoints(orphans, entry_points) == SelectSeq(orphans, LAMBDA f : f \in entry_points)

\* [str(Path(f).relative_to(root)) for f in list]
Processed(list) == [i \in 1..Len(list) |-> RelativeTo(list[i], ROOT)]

Classify ==
    /\ pc = "count"
    /\ UNCHANGED walk
    /\ steps' = steps + 1
    /\ consumer > Len(all_files)
    /\ LET orphans == ZeroDegree(in_degree, all_files)
           entry_points == get_entry_points(all_files)
       IN  /\ processed_orphans' = Processed(TrueOrphans(orphans, entry_points))
           /\ processed_entry' = Processed(LikelyEntryPoints(orphans, entry_points))
    /\ pc' = "output"
    /\ UNCHANGED <<inputs, ext_iter, all_files, file_map, full_path_set, graph,
                   in_degree, consumer, resolutions, stdout, stderr, exit_code,
                   run, previous>>

\* A document whose count is the number of all files with in-degree 0.
JsonDocument_CountsAll(orphans, entry) ==
    [kind |-> "json", orphans |-> orphans, likely_entry_points |-> entry,
     count |-> Len(orphans) + Len(entry)]

\* json.dumps({"orphans": ..., "likely_entry_points": ..., "count": ...})
JsonDocument(orphans, entry) ==
    [kind |-> "json", orphans |-> orphans, likely_entry_points |-> entry,
     count |-> Len(orphans)]

\* The text report: the count of the first line, the "[OK]" lines and the
\* "[?]" lines, both sorted.
TextReport(orphans, entry) ==
    [kind |-> "text", orphans |-> sorted(orphans),
     likely_entry_points |-> sorted(entry), count |-> Len(orphans)]

Output ==
    /\ pc = "output"
    /\ UNCHANGED walk
    /\ steps' = steps + 1
    /\ stdout' = Append(stdout,
                    IF format = "json"
                    THEN JsonDocument(processed_orphans, processed_entry)
                    ELSE TextReport(processed_orphans, processed_entry))
    /\ exit_code' = 0
    /\ pc' = "done"
    /\ UNCHANGED <<inputs, ext_iter, locals, stderr, run, previous>>

\* The program is started again on the unchanged tree with the same
\* arguments: a new process, with its own iteration order of EXTENSIONS.
Rerun ==
    /\ pc = "done"
    /\ UNCHANGED walk
    /\ steps' = steps + 1
    /\ run < MaxRuns
    /\ run' = run + 1
    /\ previous' = previous \o stdout
    /\ ext_iter' \in ExtOrders
    /\ pc' = "index"
    /\ all_files' = <<>>
    /\ file_map' = <<>>
    /\ full_path_set' = {}
    /\ graph' = <<>>
    /\ in_degree' = <<>>
    /\ consumer' = 0
    /\ resolutions' = {}
    /\ processed_orphans' = <<>>
    /\ processed_entry' = <<>>
    /\ stdout' = <<>>
    /\ stderr' = <<>>
    /\ exit_code' = -1
    /\ UNCHANGED inputs

Next == IndexFiles \/ BuildGraph \/ CountConsumer \/ Classify \/ Output

Spec == Init /\ [][Next]_vars

NextRerun == Next \/ Rerun

SpecRerun == Init /\ [][NextRerun]_vars

(***************************************************************************)
(* os.walk(root) taken one directory at a time, over trees with symbolic   *)
(* links to directories. os.walk is called with followlinks left False.    *)
(***************************************************************************)
\* The deepest directory (in path components) a walk step descends to.
MaxDepth == 4

\* The files of the trees with symbolic links.
WalkFiles == {"/r/top.js", "/r/a/x.js", "/r/b/y.js"}

\* The symbolic links tried with them: none, a link to an ancestor, a link
\* of the root to itself, two directories linking to each other.
WalkLinks ==
    { <<>>,
      ("/r/a/loop" :> "/r"),
      ("/r/self" :> "/r"),
      ("/r/a/tob" :> "/r/b" @@ "/r/b/toa" :> "/r/a") }

WalkSnapshots(paths) ==
    {g \in [paths -> UNION {ContentsOf(f) : f \in WalkFiles}] :
        \A f \in paths : g[f] \in ContentsOf(f)}

RECURSIVE Phys(_, _)
\* The physical path behind path p: its symbolic links followed.
Phys(p, symlinks) ==
    LET parts == PathParts(p)
        hits == {k \in 1..Len(parts) :
                    PathStr(SubSeq(parts, 1, k), TRUE) \in DOMAIN symlinks}
    IN  IF hits = {} THEN p
        ELSE LET k == CHOOSE h \in hits : \A j \in hits : h <= j
                 to == symlinks[PathStr(SubSeq(parts, 1, k), TRUE)]
             IN  Phys(PathStr(PathParts(to) \o SubSeq(parts, k + 1, Len(parts)), TRUE),
                      symlinks)

\* os.path.islink(path) for a path whose parent the walk has reached.
islink(path, symlinks) ==
    PathJoin(Phys(Parent(path), symlinks), Name(path)) \in DOMAIN symlinks

\* The non-directory entries scandir lists for dir, as paths below dir.
WalkFilenames(dir, files, order, symlinks) ==
    LET phys == Phys(dir, symlinks)
        here == SelectSeq(order, LAMBDA f : f \in files /\ Parent(f) = phys)
    IN  [i \in 1..Len(here) |-> PathJoin(dir, Name(here[i]))]

\* The directory entries scandir lists for dir: its subdirectories and its
\* symbolic links to directories (is_dir follows the link).
WalkDirnames(dir, files, order, symlinks) ==
    LET phys == Phys(dir, symlinks)
        deeper == SelectSeq(order, LAMBDA f : f \in Under(phys, files) /\ Parent(f) # phys)
        real == [i \in 1..Len(deeper) |-> ChildName(phys, deeper[i])]
        other == SortedSeq({ChildName(phys, l) : l \in Under(phys, DOMAIN symlinks)})
    IN  Distinct(real \o other, {})

\* A walk that descends into symbolic links (followlinks=True).
Descend_FollowLinks(path, symlinks) == TRUE

\* Whether os.walk descends into the directory entry path.
Descend(path, symlinks) == ~islink(path, symlinks)

\* One iteration of "for dirpath, dirnames, filenames in os.walk(root)".
WalkStep ==
    /\ pc = "walk"
    /\ walk_stack # <<>>
    /\ steps' = steps + 1
    /\ LET dir == Head(walk_stack)
           listable == Phys(dir, links) \notin noread_dirs
           filenames == IF listable
                        THEN WalkFilenames(dir, DOMAIN fs, listing, links) ELSE <<>>
           dirnames == IF listable
                       THEN SelectSeq(WalkDirnames(dir, DOMAIN fs, listing, links), KeepDir)
                       ELSE <<>>
           subdirs == [i \in 1..Len(dirnames) |-> PathJoin(dir, dirnames[i])]
           entered == SelectSeq(subdirs,
                          LAMBDA d : Descend(d, links) /\ Len(PathParts(d)) <= MaxDepth)
           files == all_files \o IndexedFiles(filenames, IgnorePatterns(ignore))
           stack == entered \o Tail(walk_stack)
       IN  /\ walk_seen' = Append(walk_seen, Phys(dir, links))
           /\ walk_stack' = stack
           /\ all_files' = files
           /\ file_map' = BuildFileMap(files)
           /\ full_path_set' = Range(files)
           /\ pc' = IF stack = <<>> THEN "graph" ELSE "walk"
    /\ UNCHANGED <<inputs, ext_iter, graph, in_degree, consumer, resolutions,
                   processed_orphans, processed_entry, stdout, stderr,
                   exit_code, run, previous>>

InitWalk ==
    /\ root_kind = "dir"
    /\ \E paths \in SUBSET WalkFiles :
         /\ Cardinality(paths) <= MaxFiles
         /\ fs \in WalkSnapshots(paths)
         /\ listing \in WalkOrders(paths)
    /\ links \in WalkLinks
    /\ noread_dirs \in {{}, {"/r/b"}}
    /\ ignore = ""
    /\ format \in Formats
    /\ ext_iter \in ExtOrders
    /\ run = 1
    /\ previous = <<>>
    /\ pc = "walk"
    /\ walk_stack = <<ROOT>>
    /\ walk_seen = <<>>
    /\ steps = 0
    /\ all_files = <<>>
    /\ file_map = <<>>
    /\ full_path_set = {}
    /\ graph = <<>>
    /\ in_degree = <<>>
    /\ consumer = 0
    /\ resolutions = {}
    /\ processed_orphans = <<>>
    /\ processed_entry = <<>>
    /\ stdout = <<>>
    /\ stderr = <<>>
    /\ exit_code = -1

NextWalk == WalkStep \/ BuildGraph \/ CountConsumer \/ Classify \/ Output

\* The process has not exited.
Running == pc \notin {"done", "crashed"}

\* The next step of a process that has not exited.
Step == Running /\ steps' = steps + 1

\* A process that has not exited keeps executing: its next step is taken.
SpecWalk == InitWalk /\ [][NextWalk]_vars /\ WF_steps(Step)

(***************************************************************************)
(* Properties.                                                             *)
(***************************************************************************)
\* The run has classified the files: the two output lists are built.
Classified == pc \in {"output", "done"}

\* The relative path under which file f is reported.
Rel(f) == RelativeTo(f, ROOT)

\* The import strings a readable file's text yields, for file f of the tree.
ExtractedFrom(f) ==
    IF fs[f].ok THEN Range(ImportOccurrences(f, fs[f].text)) ELSE {}

\* The pairs <<consumer, import string>> of indexed files other than f whose
\* import string resolves to f.
InboundFromOthers(f) ==
    {x \in UNION {{<<g, imp>> : imp \in ExtractedFrom(g)} : g \in Range(all_files) \ {f}} :
        Resolved(x[1], x[2]) = f}

\* C1: after a completed analysis every indexed file has an in-degree >= 0;
\* it is in exactly one of the two output lists iff its in-degree is 0 and in
\* neither otherwise; the lists are disjoint and their union is the set of
\* the zero-in-degree indexed files. The printed document holds the same lists.
C1_ZeroDegreePartition ==
    Classified =>
        LET O == Range(processed_orphans)
            E == Range(processed_entry)
        IN  /\ \A f \in Range(all_files) :
                  /\ in_degree[f] >= 0
                  /\ in_degree[f] = 0 <=> ((Rel(f) \in O) # (Rel(f) \in E))
                  /\ in_degree[f] > 0 => (Rel(f) \notin O /\ Rel(f) \notin E)
            /\ O \cap E = {}
            /\ O \cup E = {Rel(f) : f \in {g \in Range(all_files) : in_degree[g] = 0}}
            /\ Len(processed_orphans) + Len(processed_entry) = Cardinality(O \cup E)
            /\ pc = "done" =>
                  /\ Range(stdout[1].orphans) = O
                  /\ Range(stdout[1].likely_entry_points) = E

\* A finished run with a referenced file, an orphan and an entry point.
C1_Witness ==
    /\ pc = "done"
    /\ \E f \in Range(all_files) : in_degree[f] > 0
    /\ processed_orphans # <<>>
    /\ processed_entry # <<>>

\* C2: a file of the tree is reported in orphans iff it is indexed, no other
\* indexed file holds an extracted reference that resolves to it, and its
\* name matches no entry-point pattern; its in-degree is > 0 exactly when
\* another indexed file holds a reference that resolves to it.
C2_OrphanIff ==
    Classified =>
        /\ \A f \in DOMAIN fs :
              Rel(f) \in Range(processed_orphans)
              <=> /\ f \in Range(all_files)
                  /\ InboundFromOthers(f) = {}
                  /\ ~IsEntryPointName(f)
        /\ \A f \in Range(all_files) : in_degree[f] > 0 <=> InboundFromOthers(f) # {}

\* A finished run that reports an orphan and leaves out a file that is not
\* an entry point because another file imports it.
C2_Witness ==
    /\ pc = "done"
    /\ processed_orphans # <<>>
    /\ \E f \in Range(all_files) :
          /\ InboundFromOthers(f) # {}
          /\ ~IsEntryPointName(f)
          /\ Rel(f) \notin Range(stdout[1].orphans)

\* C3: a file whose name matches an entry-point pattern, in any letter case,
\* is never in orphans, whatever its in-degree; with in-degree 0 it is in
\* likely_entry_points.
C3_WhitelistPrecedence ==
    Classified =>
        \A f \in DOMAIN fs :
            IsEntryPointName(f) =>
                /\ Rel(f) \notin Range(processed_orphans)
                /\ pc = "done" => Rel(f) \notin Range(stdout[1].orphans)
                /\ (f \in Range(all_files) /\ in_degree[f] = 0)
                       => Rel(f) \in Range(processed_entry)

\* A finished run in which a file named in upper case ("App.JS") is an entry
\* point with in-degree 0, next to a true orphan.
C3_Witness ==
    /\ pc = "done"
    /\ \E f \in Range(all_files) :
          /\ IsEntryPointName(f)
          /\ Name(f) # Lower(Name(f))
          /\ in_degree[f] = 0
          /\ Rel(f) \in Range(stdout[1].likely_entry_points)
    /\ processed_orphans # <<>>

\* C4: a reference that resolves to the file that holds it never adds to
\* that file's in-degree: at every point of the count loop the in-degree of a
\* file is the number of calls that resolved to it from other files, and a
\* file whose only resolved references come from itself has in-degree 0 and
\* is reported as an orphan or an entry point.
C4_NoSelfEdges ==
    pc \in {"count", "output", "done"} =>
        \A f \in Range(all_files) :
            /\ in_degree[f] = Cardinality({r \in resolutions :
                                              r.target = f /\ r.consumer # f})
            /\ (Classified /\ \A r \in resolutions : r.target = f => r.consumer = f)
                  => /\ in_degree[f] = 0
                     /\ \/ Rel(f) \in Range(processed_orphans)
                        \/ Rel(f) \in Range(processed_entry)

\* A finished run with a file that imports itself, nobody else importing it.
C4_Witness ==
    /\ pc = "done"
    /\ \E r \in resolutions :
          /\ r.target = r.consumer
          /\ in_degree[r.consumer] = 0
          /\ Rel(r.consumer) \in Range(stdout[1].orphans)

\* C5: two runs over the same unchanged tree with the same arguments print
\* the same orphans and likely_entry_points, in the same order, whatever the
\* iteration order of EXTENSIONS in either process.
C5_Idempotent ==
    (pc = "done" /\ run = 2) =>
        /\ stdout[1].orphans = previous[1].orphans
        /\ stdout[1].likely_entry_points = previous[1].likely_entry_points

\* C6: the orphans and the likely_entry_points of the JSON document are
\* sorted by relative path, for every order of the directory walk.
C6_JsonSorted ==
    (pc = "done" /\ format = "json") =>
        /\ IsSorted(stdout[1].orphans)
        /\ IsSorted(stdout[1].likely_entry_points)

\* C7: when the root does not exist or is no directory the run is fatal: no
\* result is ever printed, and the process ends with a nonzero status and an
\* error message.
C7_RootPreconditionFatal ==
    root_kind # "dir" =>
        /\ stdout = <<>>
        /\ pc \in {"done", "crashed"} =>
              /\ exit_code # 0
              /\ \E i \in DOMAIN stderr : stderr[i].kind = "error"

\* The indexed files whose read fails.
UnreadableIndexed == {f \in Range(all_files) : ~fs[f].ok}

\* The in-degree loop has gone past file f.
Counted(f) ==
    \/ Classified
    \/ pc = "count" /\ \E i \in 1..Len(all_files) : i < consumer /\ all_files[i] = f

\* C8: an indexed file whose read fails stays in the index and in the
\* in-degree table, adds no outbound edge, receives the edges of the other
\* files, is classified by the rule of every other file, and never stops
\* the run: a run dies only of a reference read from a readable file.
C8_ReadFailureDegrades ==
    /\ \A f \in UnreadableIndexed :
          /\ f \in full_path_set
          /\ pc \in {"count", "output", "done"} =>
                /\ f \in DOMAIN in_degree
                /\ f \in DOMAIN graph => graph[f] = {}
                /\ \A r \in resolutions : r.consumer # f
                /\ \A g \in Range(all_files) \ {f} :
                      (Counted(g) /\ \E imp \in ExtractedFrom(g) : Resolved(g, imp) = f)
                          => in_degree[f] > 0
          /\ Classified =>
                /\ in_degree[f] = Cardinality(InboundFromOthers(f))
                /\ Rel(f) \in Range(processed_orphans)
                      <=> (in_degree[f] = 0 /\ ~IsEntryPointName(f))
                /\ Rel(f) \in Range(processed_entry)
                      <=> (in_degree[f] = 0 /\ IsEntryPointName(f))
    /\ pc = "crashed" =>
          \E g \in Range(all_files) :
              \E imp \in ExtractedFrom(g) : Resolved(g, imp) = ValueError

\* A finished run with an unreadable file whose text holds an import that
\* would resolve, and which another file imports.
C8_Witness ==
    /\ pc = "done"
    /\ \E f \in UnreadableIndexed :
          /\ \E imp \in Range(ImportOccurrences(f, fs[f].text)) :
                Resolved(f, imp) \in full_path_set \ {f}
          /\ in_degree[f] > 0
          /\ Rel(f) \notin Range(stdout[1].orphans)

\* The directories of the tree that os.walk reaches and cannot list.
UnlistableWalked ==
    {d \in noread_dirs :
        /\ root_kind = "dir"
        /\ Under(d, DOMAIN fs) # {}
        /\ \A i \in (Len(PathParts(ROOT)) + 1)..Len(PathParts(d)) : KeepDir(PathParts(d)[i])}

\* C9: once the walk has passed over a directory it cannot list, or the
\* extraction has passed over a file it cannot read, a warning is on stderr.
C9_WarningOnRecoveredFailure ==
    ((pc # "index" /\ UnlistableWalked # {}) \/ (pc \notin {"index", "graph"} /\ UnreadableIndexed # {}))
        => \E i \in DOMAIN stderr : stderr[i].kind = "warning"

\* The result C10 allows for the relative path P: P when indexed, else a
\* P+ext that is indexed, else a P/index.ext that is indexed, else None.
AllowedRelative(P) ==
    LET appended == {P \o ext : ext \in EXTENSIONS} \cap full_path_set
        index == {PathJoin(P, "index" \o ext) : ext \in EXTENSIONS} \cap full_path_set
    IN  IF P \in full_path_set THEN {P}
        ELSE IF appended # {} THEN appended
        ELSE IF index # {} THEN index
        ELSE {None}

\* C10: every resolution of a reference that begins with "." returns P when
\* P is indexed, else some indexed P+ext, else some indexed P/index.ext, else
\* nothing.
C10_RelativePriority ==
    \A r \in resolutions :
        StartsWith(r.ref, ".") =>
            r.target \in AllowedRelative(Resolve(PathJoin(Parent(r.consumer), r.ref)))

\* The path of a relative reference: the directory of the importing file
\* joined with the reference, resolved.
TargetOf(r) == Resolve(PathJoin(Parent(r.consumer), r.ref))

\* The paths P+ext: P with a recognized extension appended.
Appended(P) == {P \o ext : ext \in EXTENSIONS}

\* The paths P/index.ext.
IndexFilesOf(P) == {PathJoin(P, "index" \o ext) : ext \in EXTENSIONS}

\* C11: step 2 of the relative resolution tries P with ext appended: a
\* reference whose path P is not indexed resolves to an indexed P+ext when
\* there is one, and no resolution returns a file that is none of P, P+ext
\* and P/index.ext ('./user.model' reaches user.model.ts, './a.js' never
\* reaches a.ts).
C11_ExtensionAppended ==
    \A r \in resolutions :
        StartsWith(r.ref, ".") =>
            LET P == TargetOf(r)
            IN  /\ r.target \in {P, None} \cup Appended(P) \cup IndexFilesOf(P)
                /\ (P \notin full_path_set /\ Appended(P) \cap full_path_set # {})
                      => r.target \in Appended(P)

\* The indexed files whose stem is the last component of the converted module
\* path py and whose path ends with py followed by one of the extensions
\* exts, in index order.
ModuleCandidates(py, exts) ==
    SelectSeq(all_files,
              LAMBDA c : Stem(c) = Name(py) /\ \E ext \in exts : EndsWith(c, py \o ext))

\* The result the module-path rule gives for reference ref when the accepted
\* extensions are exts.
ModuleResult(ref, exts) ==
    LET accepted == ModuleCandidates(Replace(ref, ".", "/"), exts)
    IN  IF accepted = <<>> THEN None ELSE Head(accepted)

FirstInIndex(S) == Head(SelectSeq(all_files, LAMBDA f : f \in S))

\* The indexed candidates of the extension loop and of the index-file loop
\* for the path P, as resolve_import builds them.
ExtensionMatches(P) == {ExtensionCandidate(P, ext) : ext \in EXTENSIONS} \cap full_path_set

IndexMatches(P) == IndexFilesOf(P) \cap full_path_set

\* C13: when several indexed files satisfy the rule for one reference
\* (several stem candidates of a module path, several extension candidates
\* or several index-file candidates of a relative path), the result is the
\* one of them that the directory walk found first.
C13_FirstInWalkOrder ==
    \A r \in resolutions :
        IF ~StartsWith(r.ref, ".")
        THEN r.target = ModuleResult(r.ref, {".py"})
        ELSE LET P == TargetOf(r)
             IN  /\ (P \notin full_path_set /\ ExtensionMatches(P) # {})
                       => r.target = FirstInIndex(ExtensionMatches(P))
                 /\ (P \notin full_path_set /\ ExtensionMatches(P) = {} /\ IndexMatches(P) # {})
                       => r.target = FirstInIndex(IndexMatches(P))

\* The tree of scenario B.
ScenarioB ==
    /\ root_kind = "dir"
    /\ ignore = ""
    /\ fs = [f \in {"/r/main.py", "/r/utils/helper.py", "/r/utils/unused.py"} |->
                IF f = "/r/main.py" THEN File("from utils import helper") ELSE File("")]

\* C14: on the tree of scenario B the result is orphans = [utils/unused.py]
\* and likely_entry_points = [main.py]; and whenever an indexed Python file
\* holds "from utils import helper" and utils/helper.py is indexed, the
\* in-degree of utils/helper.py is not 0.
C14_ScenarioB ==
    /\ (pc = "done" /\ ScenarioB) =>
          /\ stdout[1].orphans = <<"utils/unused.py">>
          /\ stdout[1].likely_entry_points = <<"main.py">>
    /\ Classified =>
          \A g \in Range(all_files) :
              ( /\ fs[g] = File("from utils import helper")
                /\ Lower(Suffix(g)) = ".py"
                /\ "/r/utils/helper.py" \in full_path_set \ {g} )
              => in_degree["/r/utils/helper.py"] > 0

\* The tree of scenario A.
ScenarioA ==
    /\ root_kind = "dir"
    /\ ignore = ""
    /\ noread_dirs = {}
    /\ fs = [f \in {"/r/src/index.js", "/r/src/lib/a.js", "/r/src/lib/b.js"} |->
                IF f = "/r/src/index.js" THEN File("import './lib/a.js'") ELSE File("")]

\* C15: on the tree of scenario A the result is orphans = [src/lib/b.js] and
\* likely_entry_points = [src/index.js]; src/lib/a.js has in-degree 1 and is
\* in neither list; count is 1.
C15_ScenarioA ==
    (ScenarioA /\ Classified) =>
        /\ in_degree = [f \in DOMAIN fs |-> IF f = "/r/src/lib/a.js" THEN 1 ELSE 0]
        /\ processed_orphans = <<"src/lib/b.js">>
        /\ processed_entry = <<"src/index.js">>
        /\ pc = "done" =>
              /\ stdout[1].orphans = <<"src/lib/b.js">>
              /\ stdout[1].likely_entry_points = <<"src/index.js">>
              /\ stdout[1].count = 1
              /\ exit_code = 0

\* The run over the tree of scenario A has printed its JSON document.
C15_Witness == ScenarioA /\ pc = "done" /\ format = "json"

\* The relative reference ref of file f is unresolvable in the sense of
\* scenario C: neither P, nor a P+ext, nor a P/index.ext is indexed.
Unresolvable(f, ref) ==
    LET P == Resolve(PathJoin(Parent(f), ref))
    IN  /\ StartsWith(ref, ".")
        /\ P \notin full_path_set
        /\ Appended(P) \cap full_path_set = {}
        /\ IndexFilesOf(P) \cap full_path_set = {}

\* The pairs <<consumer, reference>> of the readable indexed files whose
\* reference is not unresolvable.
OtherReferences ==
    {x \in UNION {{<<g, imp>> : imp \in ExtractedFrom(g)} : g \in Range(all_files)} :
        ~Unresolvable(x[1], x[2])}

\* C16: an unresolvable relative reference resolves to nothing and changes
\* no in-degree (every in-degree is made of the other references alone),
\* the other references of the same file are still resolved, and the run
\* ends without error.
C16_UnresolvableRelative ==
    /\ \A r \in resolutions : Unresolvable(r.consumer, r.ref) => r.target = None
    /\ Classified =>
          /\ \A f \in Range(all_files) :
                in_degree[f] = Cardinality({x \in OtherReferences :
                                               x[1] # f /\ Resolved(x[1], x[2]) = f})
          /\ \A x \in OtherReferences :
                \E r \in resolutions : r.consumer = x[1] /\ r.ref = x[2]
    /\ (\E g \in Range(all_files) : \E imp \in ExtractedFrom(g) : Unresolvable(g, imp))
          => /\ pc # "crashed"
             /\ pc = "done" => exit_code = 0

\* The directories of the snapshot's files, and one more.
SomeDirs == {Parent(g) : g \in DOMAIN fs} \cup {ROOT, "/r/other"}

\* The basenames the candidates of the path P can have.
CandidateNames(P) ==
    {Name(P)} \cup {Stem(P) \o ext : ext \in EXTENSIONS}
              \cup {Name(P) \o ext : ext \in EXTENSIONS}
              \cup {"index" \o ext : ext \in EXTENSIONS}

\* Files with the basename or stem of a candidate of P in directories other
\* than those of the candidates: indexed ones and ones that could be added.
Colliders(P) ==
    LET elsewhere == SomeDirs \ {Parent(P), P}
        added == {d \o "/" \o n : d \in elsewhere, n \in CandidateNames(P)}
        indexed == {g \in full_path_set :
                       /\ Parent(g) \notin {Parent(P), P}
                       /\ \/ Name(g) \in CandidateNames(P)
                          \/ Stem(g) \in {Stem(P), Name(P)}}
    IN  added \cup indexed

\* C17: in a finished run the result of every relative resolution is a
\* function of the directory of the importing file, the reference and the
\* set of indexed full paths: another importer of the same directory and any
\* name-and-stem map give the same result, and so does the index with files
\* of the same basename or stem added to, or removed from, other directories.
C17_NoBasenameCollisions ==
    \A r \in (IF pc = "done" THEN resolutions ELSE {}) :
        StartsWith(r.ref, ".") =>
            LET P == TargetOf(r)
                C == Colliders(P)
                sibling == PathJoin(Parent(r.consumer), "another.js")
            IN  /\ resolve_import(sibling, r.ref, <<>>, full_path_set, ext_iter) = r.target
                /\ ResolveRelative(P, full_path_set \cup C, ext_iter) = r.target
                /\ ResolveRelative(P, full_path_set \ C, ext_iter) = r.target
                /\ \A c \in C \cap full_path_set :
                      ResolveRelative(P, full_path_set \ {c}, ext_iter) = r.target

\* A finished run with two importers of the same basename in different
\* directories and the same reference: one resolves to the file of its own
\* directory, the other resolves to nothing although a file of that name is
\* indexed elsewhere.
C17_Witness ==
    /\ pc = "done"
    /\ \E r1, r2 \in resolutions :
          /\ Name(r1.consumer) = Name(r2.consumer)
          /\ Parent(r1.consumer) # Parent(r2.consumer)
          /\ r1.ref = r2.ref
          /\ StartsWith(r1.ref, ".")
          /\ r1.target \in full_path_set
          /\ Parent(r1.target) = Parent(r1.consumer)
          /\ r2.target = None
          /\ r1.target \in Colliders(TargetOf(r2))

\* The reference occurrences of the text of file g, in order (none when the
\* file cannot be read).
OccurrencesIn(g) == IF fs[g].ok THEN ImportOccurrences(g, fs[g].text) ELSE <<>>

\* The occurrences <<consumer, position>> in indexed files other than D
\* whose reference resolves to D.
OccurrencesInto(D) ==
    UNION {{<<g, i>> : i \in {j \in DOMAIN OccurrencesIn(g) :
                                 Resolved(g, OccurrencesIn(g)[j]) = D}} :
           g \in Range(all_files) \ {D}}

\* C18: after the run the in-degree of every indexed file D is the number
\* of reference occurrences in the other indexed files that resolve to D: a
\* consumer that names D twice, by the same string or by two strings, adds 2.
C18_CountsOccurrences ==
    Classified =>
        \A D \in Range(all_files) : in_degree[D] = Cardinality(OccurrencesInto(D))

\* C19: the count of the printed result is the length of its orphans list,
\* which is the number of true orphans; the likely entry points are not
\* counted.
C19_CountIsOrphans ==
    pc = "done" =>
        /\ stdout[1].count = Len(stdout[1].orphans)
        /\ stdout[1].count = Cardinality({f \in Range(all_files) :
                                             in_degree[f] = 0 /\ ~IsEntryPointName(f)})

\* A JSON document with an orphan and a likely entry point.
C19_Witness ==
    /\ pc = "done"
    /\ format = "json"
    /\ stdout[1].orphans # <<>>
    /\ stdout[1].likely_entry_points # <<>>

\* The places of a text where a statement can begin: the start of the text
\* and whatever follows a line end, a ";" or a "}".
ConstructStarts(s) == {p \in 1..Len(s) : p = 1 \/ At(s, p - 1) \in {"\n", ";", "}"}}

\* The quoted arguments of the import, export-from and require constructs of
\* a text, wherever they stand: at the start of any statement or line, and,
\* for require, anywhere in an expression.
ConstructArguments(s) ==
    {JsAfterAnchor(s, p).ref : p \in {q \in ConstructStarts(s) : JsAfterAnchor(s, q).ok}}
    \cup {JsRequireTail(s, p + 7).ref :
             p \in {q \in 1..Len(s) : HasAt(s, q, "require") /\ JsRequireTail(s, q + 7).ok}}

\* C20: once the count loop has read a readable ECMAScript-like file, every
\* quoted argument of an import, export-from or require construct of its
\* text has been extracted, on whatever line the construct stands and also
\* for a require on the right of an assignment.
C20_JsExtractionComplete ==
    \A f \in Range(all_files) :
        (fs[f].ok /\ Lower(Suffix(f)) \in JS_SUFFIXES /\ Counted(f)) =>
            \A ref \in ConstructArguments(fs[f].text) :
                \E r \in resolutions : r.consumer = f /\ r.ref = ref

RECURSIVE Words(_)
\* The words of a line: its maximal runs of characters that are no white
\* space, in order.
Words(line) ==
    LET b == SkipSpace(line, 1)
        rest == SubSeq(line, b, Len(line))
        spaces == {i \in 1..Len(rest) : IsSpace(Ch(rest, i))}
        e == IF spaces = {} THEN Len(rest) + 1
             ELSE CHOOSE i \in spaces : \A j \in spaces : i <= j
    IN  IF rest = "" THEN <<>>
        ELSE <<SubSeq(rest, 1, e - 1)>> \o Words(SubSeq(rest, e, Len(rest)))

\* The dotted name a word begins with ("" when it begins with none).
DottedPrefix(w) == SubSeq(w, 1, SkipWordDot(w, 1) - 1)

\* The reference a line of Python yields by the rule of C21, as a set: X for
\* "import X ..." and for "from X import ...", nothing for any other line.
PyLineReference(line) ==
    LET w == Words(line)
    IN  IF Len(w) >= 2 /\ w[1] = "import" /\ DottedPrefix(w[2]) # ""
        THEN {DottedPrefix(w[2])}
        ELSE IF Len(w) >= 3 /\ w[1] = "from" /\ w[2] # "" /\ DottedPrefix(w[2]) = w[2]
                /\ StartsWith(w[3], "import")
        THEN {w[2]}
        ELSE {}

\* C21: the references the count loop has taken from a readable .py file
\* are exactly the dotted names X of its lines of the form "import X" or
\* "from X import ..." (white space before them allowed); no other line
\* yields a reference.
C21_PyExtraction ==
    \A f \in Range(all_files) :
        (fs[f].ok /\ Lower(Suffix(f)) = ".py" /\ Counted(f)) =>
            {r.ref : r \in {x \in resolutions : x.consumer = f}}
                = UNION {PyLineReference(l) : l \in Range(Split(fs[f].text, "\n"))}

\* A finished run over a Python file with an indented import, a from-import
\* of a dotted name and lines that are no import.
C21_Witness ==
    /\ pc = "done"
    /\ \E f \in Range(all_files) :
          /\ Lower(Suffix(f)) = ".py"
          /\ {r.ref : r \in {x \in resolutions : x.consumer = f}}
                = {"helper", "utils.helper", "os"}
          /\ Len(Split(fs[f].text, "\n")) > 3

RECURSIVE SumOver(_, _)
\* The sum of the values of the table t over the set S of its keys.
SumOver(t, S) ==
    IF S = {} THEN 0
    ELSE LET k == CHOOSE x \in S : TRUE
         IN  t[k] + SumOver(t, S \ {k})

\* C22: from the moment main creates it, the in-degree table has one entry
\* for every indexed file and none for any other path; a reference that
\* resolves to nothing, or to no indexed file, creates no entry and adds to
\* none: the entries add up to the resolutions into indexed files.
C22_TableDomain ==
    pc \notin {"index", "graph"} =>
        /\ DOMAIN in_degree = Range(all_files)
        /\ Cardinality(Range(all_files)) = Len(all_files)
        /\ DOMAIN in_degree \subseteq DOMAIN fs
        /\ \A f \in DOMAIN in_degree : in_degree[f] \in Nat
        /\ \A r \in resolutions :
              r.target \notin Range(all_files) => r.target \notin DOMAIN in_degree
        /\ SumOver(in_degree, DOMAIN in_degree)
              = Cardinality({r \in resolutions :
                                r.target \in Range(all_files) /\ r.target # r.consumer})

\* The count loop has resolved one reference to nothing and another to an
\* indexed file, whose entry it has incremented.
C22_Witness ==
    /\ pc = "done"
    /\ \E r \in resolutions : r.target = None
    /\ \E r \in resolutions : r.target \in Range(all_files) /\ in_degree[r.target] > 0

\* The names of the directories between the root and file f.
DirNames(f) == Range(PathParts(RelativeTo(Parent(f), ROOT)))

\* The directories file f lies in, from the root down.
AncestorDirs(f) ==
    LET parts == PathParts(f)
    IN  {PathStr(SubSeq(parts, 1, k), TRUE) : k \in 1..(Len(parts) - 1)}

\* A file with a recognized extension, under no pruned directory, that
\* matches no ignore pattern.
PassesFilters(f) ==
    /\ Lower(Suffix(f)) \in EXTENSIONS
    /\ \A d \in DirNames(f) : d \notin SKIP_DIRS /\ ~StartsWith(d, ".")
    /\ ~is_ignored(Rel(f), IgnorePatterns(ignore))

\* File f is in the index once, under its full path, its name and its stem.
Registered(f) ==
    /\ Cardinality({i \in 1..Len(all_files) : all_files[i] = f}) = 1
    /\ f \in full_path_set
    /\ Name(f) \in DOMAIN file_map /\ f \in Range(file_map[Name(f)])
    /\ Stem(f) \in DOMAIN file_map /\ f \in Range(file_map[Stem(f)])

\* File f is nowhere in the index.
Absent(f) ==
    /\ f \notin Range(all_files)
    /\ f \notin full_path_set
    /\ \A k \in DOMAIN file_map : f \notin Range(file_map[k])

BelowPruned(f) == \E d \in DirNames(f) : d \in SKIP_DIRS \/ StartsWith(d, ".")

\* The paths the output documents list.
Reported ==
    UNION {Range(stdout[i].orphans) \cup Range(stdout[i].likely_entry_points) :
              i \in 1..Len(stdout)}

\* C24: a file below a pruned directory is never walked, indexed, scanned,
\* counted, the target of a resolution or in the output.
C24_Pruned ==
    \A f \in DOMAIN fs :
        BelowPruned(f) =>
            /\ f \notin Range(WalkedFiles(root_kind, DOMAIN fs, listing, noread_dirs))
            /\ Absent(f)
            /\ f \notin DOMAIN in_degree
            /\ f \notin DOMAIN graph
            /\ \A k \in DOMAIN graph : f \notin graph[k]
            /\ \A r \in resolutions : r.consumer # f /\ r.target # f
            /\ Rel(f) \notin Reported

\* A finished run over a tree with files below a skipped and a hidden
\* directory, in which an indexed file refers to both.
C24_Witness ==
    /\ pc = "done"
    /\ \E f \in DOMAIN fs : \E d \in DirNames(f) : d \in SKIP_DIRS
    /\ \E f \in DOMAIN fs : \E d \in DirNames(f) : StartsWith(d, ".")
    /\ \E r \in resolutions : r.ref = "./node_modules/x"
    /\ \E r \in resolutions : r.ref = "./.cfg/y"

C26_IndexImmutable ==
    pc \in {"count", "output", "done", "crashed"} =>
        /\ file_map = BuildFileMap(all_files)
        /\ full_path_set = Range(all_files)

\* The count loop has looked up a name that is no key of the index, and a
\* relative reference that led to no indexed file.
C26_Witness ==
    /\ pc = "done"
    /\ \E r \in resolutions :
          /\ ~StartsWith(r.ref, ".")
          /\ Name(Replace(r.ref, ".", "/")) \notin DOMAIN file_map
    /\ \E r \in resolutions : StartsWith(r.ref, ".") /\ r.target = None

RECURSIVE CountedInOrder(_, _)
\* The in-degree table after the count loop has taken the consumers in the
\* order given, starting from table.
CountedInOrder(table, order) ==
    IF order = <<>> THEN table
    ELSE CountedInOrder(Incremented(table, Head(order)), Tail(order))

\* The partial table of one file: its own contribution to a zero table.
PartialTable(f) == Incremented(ZeroTable(all_files), f)

RECURSIVE Merged(_, _)
\* The pointwise sum of the tables of the set parts over the keys of zero.
Merged(zero, parts) ==
    IF parts = {} THEN zero
    ELSE LET p == CHOOSE x \in parts : TRUE
         IN  Merged([t \in DOMAIN zero |-> zero[t] + p[2][t]], parts \ {p})

\* C27: the in-degree table of a finished run is the table the count loop
\* reaches for every order of the indexed files, and the pointwise sum of
\* the files' partial tables; so are the orphans and the entry points.
C27_OrderIndependent ==
    pc = "done" =>
        /\ \A order \in Orderings(Range(all_files)) :
              /\ CountedInOrder(ZeroTable(all_files), order) = in_degree
              /\ Range(ZeroDegree(in_degree, order)) = Range(ZeroDegree(in_degree, all_files))
        /\ in_degree = Merged(ZeroTable(all_files),
                              {<<f, PartialTable(f)>> : f \in Range(all_files)})

\* A finished run over three files, two of which import each other.
C27_Witness ==
    /\ pc = "done"
    /\ Len(all_files) = 3
    /\ \E f, g \in Range(all_files) :
          /\ f # g
          /\ in_degree[f] > 0 /\ in_degree[g] > 0
          /\ \E r \in resolutions : r.consumer = f /\ r.target = g
          /\ \E r \in resolutions : r.consumer = g /\ r.target = f

\* Whether the sequence tail ends the sequence whole.
EndsWithParts(whole, tail) ==
    /\ Len(tail) <= Len(whole)
    /\ SubSeq(whole, Len(whole) - Len(tail) + 1, Len(whole)) = tail

\* C28: a non-relative reference resolves only to a file whose path
\* components end with the components of the converted module path plus
\* ".py"; never to a file in a directory whose name merely ends with the
\* first component.
C28_ComponentBoundaries ==
    \A r \in resolutions :
        (~StartsWith(r.ref, ".") /\ r.target \notin {None, ValueError}) =>
            EndsWithParts(PathParts(r.target),
                          PathParts(Replace(r.ref, ".", "/") \o ".py"))

\* The dialect family of a file, by its extension.
Family(f) ==
    LET ext == Lower(Suffix(f))
    IN  IF ext \in JS_SUFFIXES THEN "ecmascript"
        ELSE IF ext = ".py" THEN "python"
        ELSE ext

\* C29: every reference that resolves to a file resolves to a file of the
\* consumer's dialect family.
C29_NoCrossDialect ==
    \A r \in resolutions :
        r.target \notin {None, ValueError} => Family(r.target) = Family(r.consumer)

\* The module a reference of the form ".name" names, "" for any other.
SiblingModule(ref) ==
    IF Len(ref) >= 2 /\ Ch(ref, 1) = "." /\ FindFrom(ref, ".", 2) = 0
    THEN SubSeq(ref, 2, Len(ref)) ELSE ""

\* C30: in a finished run, "from .mod import name" in a .py file of directory
\* d gives an indexed d/mod.py a nonzero in-degree, and "from . import name"
\* creates an edge to nothing but a Python module of d.
C30_PyRelative ==
    pc = "done" =>
        \A r \in resolutions :
            Lower(Suffix(r.consumer)) = ".py" =>
                /\ LET sibling == PathJoin(Parent(r.consumer), SiblingModule(r.ref) \o ".py")
                   IN  (SiblingModule(r.ref) # "" /\ sibling \in Range(all_files)
                           /\ sibling # r.consumer)
                           => in_degree[sibling] > 0
                /\ (r.ref = "." /\ r.target \in Range(all_files)) =>
                       /\ Parent(r.target) = Parent(r.consumer)
                       /\ Suffix(r.target) = ".py"

=============================================================================
